---------------------------- MODULE Spec2Model ----------------------------
(***************************************************************************)
(* A model of the poll-validity pipeline of election_forecast:             *)
(*   grouping      format_polls / format_polling                           *)
(*   classifying   process_polls_isValid (+ call_gemini_flash)             *)
(*   merging       merge_polls_with_validity / merge_general_election_...  *)
(*   reconciling   compare_llm_with_final                                  *)
(* Every component has its own specification (SpecMerge, SpecClassify,     *)
(* SpecCompare, SpecGroup); the variables of the other components are      *)
(* idle there.                                                             *)
(*                                                                         *)
(* Tables (pandas DataFrames, CSV files) are records                       *)
(*   [status, cols, rows]: cols is the ordered list of column names, rows  *)
(* the ordered list of rows, a row being a function from column names to   *)
(* cell values.  Cell values are strings, as in a CSV file; a missing      *)
(* value (pandas NaN / JSON null) is the string "NaN".  Dates are the      *)
(* integers yyyymmdd, which are ordered as the dates are.                  *)
(***************************************************************************)
EXTENDS Integers, Sequences, FiniteSets, TLC

VARIABLES
    \* ---- merging
    raw_file,        \* rows of the raw polling CSV named by `filename`
    processed_df,    \* the verdict objects handed to the merge
    llm_file,        \* the table merge_polls_with_validity writes (to_csv)
    result_df,       \* the table merge_general_election_polling returns
    pcMerge,         \* which merge functions have run
    \* ---- classifying
    formatted_data,  \* the questions (their QuestionIDs) to classify
    batch_size,      \* questions per API call
    variant,         \* which process_polls_isValid is running
    i,               \* the loop index of `for i in range(0, len, batch_size)`
    responses,       \* the accumulated verdict objects
    calls,           \* the chunks sent so far, in call order
    replies,         \* the service's reply to each call, in call order
    pcClassify,      \* "loop", "done" or the exception that escaped
    \* ---- reconciling
    llm_files,       \* the rows of each file of llm_filenames
    final_files,     \* the rows of each file of final_filenames
    file_index,      \* the loop index of `for i in range(len(llm_filenames))`
    total_questions,
    correct_predictions,
    success_rate,    \* [num, den]: the rate is num / den (nan when den = 0)
    report,          \* the disagreement blocks written to output_filename
    pcCompare,       \* "loop", "written" or "ZeroDivisionError"
    \* ---- grouping
    file_columns,    \* the columns of the file that is grouped
    year,            \* the election year format_polling was called with
    formatted,       \* the list of question dicts the formatter returned
    pcGroup,         \* "start", the formatter that has run, or "KeyError"
    \* ---- reviewing
    gui_df,          \* self.df: the rows of the file the GUI has read
    grouped_data,    \* PollingDataEvaluationGUI.grouped_data
    current_index,   \* PollingDataEvaluationGUI.current_index
    current_question_index,  \* PollGui.current_question_index
    validity_label,  \* text and colour of the validity label
    final_file,      \* the rows save_results has written
    pcGui,           \* "start", the GUI that is open, "quit" or an exception
    \* ---- prompting
    prompt_module,   \* the module whose create_polls_isValid_system_prompt runs
    candidates,      \* the candidate names it is called with
    prompt_year,     \* the election year it is called with
    system_prompt,   \* the text it returned, as a sequence of passages
    pcPrompt,        \* "start" or "built"
    \* ---- validating
    app_input,       \* the entries of the JSON file when the app was started
    app_file,        \* the entries of the file named self.filename now
    app_data,        \* PollValidationApp.data
    app_index,       \* PollValidationApp.current_index
    app_raised,      \* the exception the last event ended with, or "no"
    app_writes,      \* how often save_responses has written the file
    pcApp            \* "start" or "running"

mergeVars    == <<raw_file, processed_df, llm_file, result_df, pcMerge>>
classifyVars == <<formatted_data, batch_size, variant, i, responses, calls,
                  replies, pcClassify>>
compareVars  == <<llm_files, final_files, file_index, total_questions,
                  correct_predictions, success_rate, report, pcCompare>>
groupVars    == <<file_columns, year, formatted, pcGroup>>
guiVars      == <<gui_df, grouped_data, current_index, current_question_index,
                 validity_label, final_file, pcGui>>
promptVars   == <<prompt_module, candidates, prompt_year, system_prompt, pcPrompt>>
appVars      == <<app_input, app_file, app_data, app_index, app_raised,
                 app_writes, pcApp>>
vars         == <<mergeVars, classifyVars, compareVars, groupVars, guiVars,
                 promptVars, appVars>>

-----------------------------------------------------------------------------
(* Bounds of the model.                                                    *)
MaxRows     == 3      \* rows in a raw file
MaxVerdicts == 2      \* verdict objects handed to a merge

(* Values.                                                                 *)
NaN         == "NaN"
QuestionIDs == {"Q1", "Q2"}
IsValidValues == {"True", "False", NaN}

-----------------------------------------------------------------------------
(* Sequence helpers.                                                       *)
Range(s) == {s[k] : k \in DOMAIN s}

SeqsUpTo(S, n) == UNION {[1..k -> S] : k \in 0..n}

RECURSIVE Concat(_)
Concat(ss) == IF ss = <<>> THEN <<>> ELSE Head(ss) \o Concat(Tail(ss))

Contains(s, x) == \E k \in DOMAIN s : s[k] = x

-----------------------------------------------------------------------------
(* Tables.                                                                 *)
DataFrame(cols, rows) == [status |-> "ok", cols |-> cols, rows |-> rows]
KeyError == [status |-> "KeyError", cols |-> <<>>, rows |-> <<>>]
NoTable  == [status |-> "none", cols |-> <<>>, rows |-> <<>>]

\* The columns of the raw polling files, in file order (the descriptive
\* columns that the model does not vary are left out).
RawColumns == <<"QuestionID", "RespTxt", "RespPct", "QuestionTxt",
                "BegDate", "EndDate">>

Row(q, r, p, t, b, e) ==
    [QuestionID |-> q, RespTxt |-> r, RespPct |-> p, QuestionTxt |-> t,
     BegDate |-> b, EndDate |-> e]

\* pd.read_csv(filename)
read_csv(file) == DataFrame(RawColumns, file)

\* pd.DataFrame(list_of_dicts): the columns are the keys of the dicts in order
\* of first appearance; an empty list gives a table without columns.
VerdictKeys == <<"questionId", "isValid">>
DataFrameOf(dicts) ==
    IF dicts = <<>> THEN DataFrame(<<>>, <<>>)
    ELSE DataFrame(VerdictKeys, dicts)

Restrict(row, keep) == [c \in keep |-> row[c]]

\* df.drop(columns=names)
drop_columns(df, names) ==
    DataFrame(SelectSeq(df.cols, LAMBDA c : c \notin names),
              [k \in DOMAIN df.rows |->
                  Restrict(df.rows[k], (DOMAIN df.rows[k]) \ names)])

\* df.dropna(subset=[col]): the rows whose `col` is not missing, in order.
dropna(df, col) ==
    DataFrame(df.cols, SelectSeq(df.rows, LAMBDA r : r[col] # NaN))

\* df.drop_duplicates(subset=col): the first row of every value of `col`.
drop_duplicates(df, col) ==
    LET first(k) == \A j \in 1..(k - 1) : df.rows[j][col] # df.rows[k][col]
        F[k \in 0..Len(df.rows)] ==
            IF k = 0 THEN <<>>
            ELSE IF first(k) THEN Append(F[k - 1], df.rows[k]) ELSE F[k - 1]
    IN  DataFrame(df.cols, F[Len(df.rows)])

\* left.merge(right, left_on=lk, right_on=rk, how='left'): every left row, in
\* left order, once per right row with the same key (in right order), or once
\* with the right columns missing when no right row has its key.  The two
\* tables share no column name here, so no suffix is added.
merge_left(left, right, lk, rk) ==
    LET missing == [c \in Range(right.cols) |-> NaN]
        joined(l) ==
            LET m == SelectSeq(right.rows, LAMBDA r : r[rk] = l[lk])
            IN  IF m = <<>> THEN <<l @@ missing>>
                ELSE [k \in DOMAIN m |-> l @@ m[k]]
    IN  DataFrame(left.cols \o right.cols,
                  Concat([k \in DOMAIN left.rows |-> joined(left.rows[k])]))

-----------------------------------------------------------------------------
(* A component that a specification does not run stays idle.               *)
IdleMerge ==
    /\ raw_file = <<>>
    /\ processed_df = <<>>
    /\ llm_file = NoTable
    /\ result_df = NoTable
    /\ pcMerge = {}

IdleClassify ==
    /\ formatted_data = <<>>
    /\ batch_size = 1
    /\ variant = "none"
    /\ i = 0
    /\ responses = <<>>
    /\ calls = <<>>
    /\ replies = <<>>
    /\ pcClassify = "idle"

IdleCompare ==
    /\ llm_files = <<>>
    /\ final_files = <<>>
    /\ file_index = 0
    /\ total_questions = 0
    /\ correct_predictions = 0
    /\ success_rate = [num |-> 0, den |-> 0]
    /\ report = <<>>
    /\ pcCompare = "idle"

IdleGroup ==
    /\ file_columns = <<>>
    /\ year = 0
    /\ formatted = <<>>
    /\ pcGroup = "idle"

NoLabel == [text |-> "", color |-> ""]

IdleGui ==
    /\ gui_df = <<>>
    /\ grouped_data = <<>>
    /\ current_index = 0
    /\ current_question_index = 0
    /\ validity_label = NoLabel
    /\ final_file = <<>>
    /\ pcGui = "idle"

IdlePrompt ==
    /\ prompt_module = ""
    /\ candidates = <<>>
    /\ prompt_year = 0
    /\ system_prompt = <<>>
    /\ pcPrompt = "idle"

IdleApp ==
    /\ app_input = <<>>
    /\ app_file = <<>>
    /\ app_data = <<>>
    /\ app_index = 0
    /\ app_raised = "no"
    /\ app_writes = 0
    /\ pcApp = "idle"

-----------------------------------------------------------------------------
(* Merging: process_polling.py.                                            *)

\* (mutant) the join taken in the order of the verdicts (how='right')
merge_polls_by_verdict_order(file, verdicts) ==
    IF verdicts = <<>> THEN KeyError
    ELSE DataFrame(RawColumns \o <<"isValid">>,
             Concat([k \in DOMAIN verdicts |->
                 IF verdicts[k].isValid = NaN THEN <<>>
                 ELSE LET m == SelectSeq(file, LAMBDA r :
                                   r.QuestionID = verdicts[k].questionId)
                      IN  [j \in DOMAIN m |->
                              m[j] @@ [isValid |-> verdicts[k].isValid]]]))

\* merge_polls_with_validity(filename, processed_df): the table it writes to
\* <base>_isvalid_llm.csv, or KeyError when a column it names is absent (no
\* file is written then).
merge_polls_with_validity(file, verdicts) ==
    LET df == read_csv(file)
        right == DataFrameOf(verdicts)
    IN  IF ~Contains(right.cols, "questionId") THEN KeyError
        ELSE LET merged_df == merge_left(df, right, "QuestionID", "questionId")
             IN  IF ~Contains(merged_df.cols, "isValid") THEN KeyError
                 ELSE drop_columns(dropna(merged_df, "isValid"), {"questionId"})

(* Merging: polling.py.  This older pipeline names the verdict validPoll   *)
(* and has the classifier return per-candidate results with it.            *)
CandidateColumn == "Roosevelt"

\* process_general_election_polling, "Flatten the results": one flat dict per
\* result, questionId and validPoll first, then the results' entries.
flattened_data(results) ==
    [k \in DOMAIN results |->
        [questionId |-> results[k].questionId,
         validPoll |-> results[k].isValid] @@ (CandidateColumn :> "49")]

new_df_of(results) ==
    IF results = <<>> THEN DataFrame(<<>>, <<>>)
    ELSE DataFrame(<<"questionId", "validPoll", CandidateColumn>>,
                   flattened_data(results))

\* df.set_index('QuestionID').reset_index(): QuestionID becomes the first column.
reset_index(df) ==
    DataFrame(<<"QuestionID">> \o SelectSeq(df.cols, LAMBDA c : c # "QuestionID"),
              df.rows)

\* result_df[col] = result_df[col].fillna(0) for every col of `names`
fillna0(df, names) ==
    DataFrame(df.cols,
              [k \in DOMAIN df.rows |->
                  [c \in DOMAIN df.rows[k] |->
                      IF c \in names /\ df.rows[k][c] = NaN THEN "0"
                      ELSE df.rows[k][c]]])

\* response_columns = [col for col in new_df.columns
\*                     if col not in ['questionId', 'validPoll']]
response_columns(new_df) ==
    SelectSeq(new_df.cols, LAMBDA c : c \notin {"questionId", "validPoll"})

\* merge_general_election_polling(filename, new_df): the table it returns.
merge_general_election_polling(file, new_df) ==
    LET old_df == read_csv(file)
        rc == response_columns(new_df)
        deduped == reset_index(drop_duplicates(
                       drop_columns(old_df, {"RespTxt", "RespPct"}), "QuestionID"))
    IN  IF ~Contains(new_df.cols, "questionId") THEN KeyError
        ELSE LET merged == drop_columns(
                     merge_left(deduped, new_df, "QuestionID", "questionId"),
                     {"questionId"})
                 filled == fillna0(merged, Range(rc))
                 column_order ==
                     <<"QuestionID", "validPoll">>
                     \o SelectSeq(filled.cols, LAMBDA c :
                            c \notin ({"QuestionID", "validPoll"} \cup Range(rc)))
                     \o rc
             IN  IF ~Contains(filled.cols, "validPoll") THEN KeyError
                 ELSE DataFrame(column_order, filled.rows)

\* The raw rows the merge specification draws its files from: two questions
\* with two response options each.
MergeRowPool ==
    {Row(q, r, IF r = "Roosevelt" THEN "49" ELSE "*",
         IF q = "Q1" THEN "Whom do you prefer?" ELSE "Who will win?",
         19360906, 19360911) :
        q \in QuestionIDs, r \in {"Roosevelt", "Others"}}

Verdicts == [questionId : QuestionIDs, isValid : IsValidValues]

InitMerge ==
    /\ raw_file \in SeqsUpTo(MergeRowPool, MaxRows)
    /\ processed_df \in SeqsUpTo(Verdicts, MaxVerdicts)
    /\ llm_file = NoTable
    /\ result_df = NoTable
    /\ pcMerge = {}

\* process_polling.main: merge_polls_with_validity(filename, processed_df)
MergePollsWithValidity ==
    /\ "llm" \notin pcMerge
    /\ llm_file' = merge_polls_with_validity(raw_file, processed_df)
    /\ pcMerge' = pcMerge \cup {"llm"}
    /\ UNCHANGED <<raw_file, processed_df, result_df>>

\* process_general_election_polling: df = pd.DataFrame(flattened_data);
\* merged_df = merge_general_election_polling(filename, df)
MergeGeneralElectionPolling ==
    /\ "general" \notin pcMerge
    /\ result_df' = merge_general_election_polling(raw_file, new_df_of(processed_df))
    /\ pcMerge' = pcMerge \cup {"general"}
    /\ UNCHANGED <<raw_file, processed_df, llm_file>>

NextMerge ==
    \/ MergePollsWithValidity /\ UNCHANGED <<classifyVars, compareVars, groupVars, guiVars, promptVars, appVars>>
    \/ MergeGeneralElectionPolling /\ UNCHANGED <<classifyVars, compareVars, groupVars, guiVars, promptVars, appVars>>

InitSpecMerge == InitMerge /\ IdleClassify /\ IdleCompare /\ IdleGroup /\ IdleGui /\ IdlePrompt /\ IdleApp

SpecMerge == InitSpecMerge /\ [][NextMerge]_vars

-----------------------------------------------------------------------------
(* Properties of the merge.                                                *)

\* The questionIds that carry a verdict object / a verdict that is not null.
VerdictIds == {processed_df[k].questionId : k \in DOMAIN processed_df}
ValidVerdictIds ==
    {processed_df[k].questionId :
        k \in {j \in DOMAIN processed_df : processed_df[j].isValid # NaN}}

\* `out` is `inp` with every element repeated zero or more times, order kept.
RECURSIVE RepeatsInOrder(_, _)
RepeatsInOrder(out, inp) ==
    \/ out = <<>>
    \/ /\ inp # <<>>
       /\ \/ Head(out) = Head(inp) /\ RepeatsInOrder(Tail(out), inp)
          \/ RepeatsInOrder(out, Tail(inp))

OriginalPart(tbl) ==
    [k \in DOMAIN tbl.rows |-> Restrict(tbl.rows[k], Range(RawColumns))]

\* C1 (as claimed): under the keep policy (merge_general_election_polling is
\* the merge that keeps unmatched rows) the merge returns a table whose
\* columns are exactly the input columns plus the verdict column, once, and
\* which has as many rows as the input.
C1_SchemaPreserved ==
    "general" \in pcMerge =>
        /\ result_df.status = "ok"
        /\ \E v \in {"isValid", "validPoll"} :
              /\ Range(result_df.cols) = Range(RawColumns) \cup {v}
              /\ Len(result_df.cols) = Len(RawColumns) + 1
        /\ Len(result_df.rows) = Len(raw_file)

\* C8 (as claimed): whenever the dropping merge (merge_polls_with_validity)
\* writes a table, its rows are exactly the input rows whose questionId has a
\* (non-null) verdict, each once.
C8_DropKeepsExactlyTheClassifiedRows ==
    ("llm" \in pcMerge /\ llm_file.status = "ok") =>
        OriginalPart(llm_file) =
            SelectSeq(raw_file, LAMBDA r : r.QuestionID \in ValidVerdictIds)

\* C9 (as claimed): every input row whose questionId has no verdict is in
\* the table the keeping merge returns, with all its columns and a null
\* verdict.
C9_UnmatchedRowsRetained ==
    "general" \in pcMerge =>
        \A k \in DOMAIN raw_file :
            raw_file[k].QuestionID \notin VerdictIds =>
                /\ result_df.status = "ok"
                /\ \E j \in DOMAIN result_df.rows :
                      /\ Range(RawColumns) \subseteq DOMAIN result_df.rows[j]
                      /\ Restrict(result_df.rows[j], Range(RawColumns)) = raw_file[k]
                      /\ result_df.rows[j].validPoll = NaN

\* The table has the input columns in input order followed by the verdict
\* column `v`, and its rows are input rows, unchanged and in input order.
LeavesDataUntouched(tbl, v) ==
    tbl.status = "ok" =>
        /\ tbl.cols = RawColumns \o <<v>>
        /\ RepeatsInOrder(OriginalPart(tbl), raw_file)

C22_MergeWritesNothing ==
    (pcMerge # {} /\ raw_file # <<>>) => llm_file.status # "ok"

-----------------------------------------------------------------------------
(* Classifying: process_polls_isValid.                                     *)
(*   variant "process_polling": process_polling.py with llm_calls.py, where *)
(*     call_gemini_flash parses the reply itself (json.loads, no try);      *)
(*   variant "process_polls": process_polls.py, where the reply is text and *)
(*     the loop parses it inside try/except json.JSONDecodeError;           *)
(*   variant "polling": polling.py's process_general_election_polling,      *)
(*     which parses the same way and accepts a single object as well.       *)
(* A verdict object is a record [questionId, isValid]; a key the object     *)
(* lacks has the value NaN, as it has in the DataFrame made of the objects. *)
MaxQuestions == 3     \* questions handed to the classifier
MaxBatch     == 2     \* the largest batch_size tried

\* The QuestionIDs of the formatted questions (format_polling yields each
\* QuestionID once), and an id that belongs to no question.
QuestionList == <<"Q1", "Q2", "Q3", "Q4", "Q5">>
ForgedId     == "QX"

InitClassify ==
    /\ formatted_data \in {SubSeq(QuestionList, 1, n) : n \in 0..MaxQuestions}
    /\ batch_size \in 1..MaxBatch
    /\ variant \in {"process_polling", "process_polls", "polling"}
    /\ i = 0
    /\ responses = <<>>
    /\ calls = <<>>
    /\ replies = <<>>
    /\ pcClassify = "loop"

\* (mutant) a slice that runs one element too far: data[k:k+size+1]
batch_one_too_far(data, k, size) ==
    SubSeq(data, k + 1, IF k + size + 1 > Len(data) THEN Len(data) ELSE k + size + 1)

\* batch = formatted_data[i:i+batch_size]
batch_at(data, k, size) ==
    SubSeq(data, k + 1, IF k + size > Len(data) THEN Len(data) ELSE k + size)

\* What the service may answer to a chunk: text that is no JSON, or a JSON
\* list of verdict objects, about the chunk's questions or about a question
\* that is not in the chunk, in any order and possibly repeated (at most one
\* object more than the chunk has questions); a single verdict object that
\* is not in a list; or a list of a verdict for the chunk's first question
\* followed by an object that is not a verdict.
JsonList(items) == [kind |-> "list", items |-> items]
JsonObject(item) == [kind |-> "object", items |-> <<item>>]
InvalidJson     == [kind |-> "invalid_json", items |-> <<>>]

\* A value of isValid that is no boolean.
NotBoolean == "maybe"

\* Objects about the chunk's last question that are no verdicts: isValid is
\* absent, questionId is absent, isValid is not a boolean.
MalformedObjects(batch) ==
    {[questionId |-> batch[Len(batch)], isValid |-> NaN],
     [questionId |-> NaN, isValid |-> "True"],
     [questionId |-> batch[Len(batch)], isValid |-> NotBoolean]}

IsMalformed(item) ==
    item.questionId = NaN \/ item.isValid \notin {"True", "False"}

ServiceReplies(batch) ==
    {InvalidJson}
    \cup {JsonList(items) :
            items \in SeqsUpTo([questionId : Range(batch),
                                isValid : {"True", "False"}]
                               \cup {[questionId |-> ForgedId, isValid |-> "True"]},
                               Len(batch) + 1)}
    \cup {JsonObject([questionId |-> batch[1], isValid |-> v]) :
            v \in {"True", "False"}}
    \cup {JsonList(<<[questionId |-> batch[1], isValid |-> "True"], m>>) :
            m \in MalformedObjects(batch)}

\* An element of a list that is a bare string, not an object: iterating over
\* a dict yields its keys.
NotAnObject == "<str>"
KeysOf(item) == <<[questionId |-> NotAnObject, isValid |-> NotAnObject],
                  [questionId |-> NotAnObject, isValid |-> NotAnObject]>>

\* process_polling.py, one pass of the loop body: call_gemini_flash raises
\* json.JSONDecodeError on text that is no JSON, and nothing catches it;
\* otherwise responses.extend(response), which for a single object (a dict)
\* appends the object's two keys.
LoopBodyPolling(reply) ==
    IF reply.kind = "invalid_json"
    THEN /\ pcClassify' = "JSONDecodeError"
         /\ UNCHANGED <<i, responses>>
    ELSE /\ responses' = responses \o
                (IF reply.kind = "object" THEN KeysOf(reply.items[1])
                 ELSE reply.items)
         /\ i' = i + batch_size
         /\ UNCHANGED pcClassify

\* polling.py, one pass of the loop body: json.JSONDecodeError is caught and
\* printed; a list extends the results, anything else is appended.
LoopBodyGeneral(reply) ==
    /\ responses' = responses \o reply.items
    /\ i' = i + batch_size
    /\ UNCHANGED pcClassify

\* process_polls.py: poll = next(p for p in batch if p["QuestionID"] ==
\* poll_result["questionId"]); poll["isValid"] = ...; processed_polls.append(poll).
\* The poll appended is the batch's own dict, so a second result for the same
\* question also changes the entry appended before.  An id that is not in the
\* batch ends next() with StopIteration, an object without questionId or
\* without isValid raises KeyError; nothing catches them, and the polls
\* appended before stay in processed_polls, which is never returned then.
RECURSIVE AppendResults(_, _, _)
AppendResults(polls, batch, results) ==
    IF results = <<>> THEN [polls |-> polls, raised |-> "no"]
    ELSE LET r == Head(results)
         IN  IF r.questionId = NaN \/ r.isValid = NaN
             THEN [polls |-> polls, raised |-> "KeyError"]
             ELSE IF ~Contains(batch, r.questionId)
             THEN [polls |-> polls, raised |-> "StopIteration"]
             ELSE AppendResults(
                      Append([k \in DOMAIN polls |->
                                 IF polls[k].questionId = r.questionId
                                 THEN r ELSE polls[k]], r),
                      batch, Tail(results))

\* process_polls.py, one pass of the loop body: json.JSONDecodeError is caught
\* and printed, and the loop goes on with the next batch.  The loop over a
\* single object runs over its keys, and poll_result["questionId"] on a
\* string raises TypeError.
LoopBodyPolls(batch, reply) ==
    IF reply.kind = "invalid_json"
    THEN /\ i' = i + batch_size
         /\ UNCHANGED <<responses, pcClassify>>
    ELSE IF reply.kind = "object"
    THEN /\ pcClassify' = "TypeError"
         /\ UNCHANGED <<i, responses>>
    ELSE LET a == AppendResults(responses, batch, reply.items)
         IN  /\ responses' = a.polls
             /\ IF a.raised # "no"
                THEN pcClassify' = a.raised /\ UNCHANGED i
                ELSE i' = i + batch_size /\ UNCHANGED pcClassify

\* One iteration of `for i in range(0, len(formatted_data), batch_size)`.
ProcessBatch ==
    /\ pcClassify = "loop"
    /\ i < Len(formatted_data)
    /\ LET batch == batch_at(formatted_data, i, batch_size)
       IN  \E reply \in ServiceReplies(batch) :
              /\ calls' = Append(calls, batch)
              /\ replies' = Append(replies, reply)
              /\ IF variant = "process_polling"
                 THEN LoopBodyPolling(reply)
                 ELSE IF variant = "process_polls"
                 THEN LoopBodyPolls(batch, reply)
                 ELSE LoopBodyGeneral(reply)
    /\ UNCHANGED <<formatted_data, batch_size, variant>>

\* The loop is over: processed_df = pd.DataFrame(responses); return
\* processed_df.  polling.py first flattens the results, reading
\* item["questionId"] and item["validPoll"] of every result: KeyError when
\* one is absent.  In process_polling.py a list that holds bare strings
\* makes a table of one unnamed column when it begins with a string, and
\* pd.DataFrame raises when a dict comes first.
ReturnProcessed ==
    /\ pcClassify = "loop"
    /\ i >= Len(formatted_data)
    /\ IF variant = "polling"
             /\ \E n \in DOMAIN responses :
                    responses[n].questionId = NaN \/ responses[n].isValid = NaN
       THEN pcClassify' = "KeyError"
       ELSE IF /\ \E n \in DOMAIN responses : responses[n].questionId = NotAnObject
               /\ responses[1].questionId # NotAnObject
       THEN pcClassify' = "AttributeError"
       ELSE pcClassify' = "done"
    /\ UNCHANGED <<formatted_data, batch_size, variant, i, responses, calls,
                   replies>>

\* What process_polls_isValid hands its caller about failed chunks: it
\* returns the table of verdicts and nothing else.
ReportedFailures == {}

NextClassify ==
    \/ ProcessBatch /\ UNCHANGED <<mergeVars, compareVars, groupVars, guiVars, promptVars, appVars>>
    \/ ReturnProcessed /\ UNCHANGED <<mergeVars, compareVars, groupVars, guiVars, promptVars, appVars>>

InitSpecClassify == InitClassify /\ IdleMerge /\ IdleCompare /\ IdleGroup /\ IdleGui /\ IdlePrompt /\ IdleApp

SpecClassify == InitSpecClassify /\ [][NextClassify]_vars

-----------------------------------------------------------------------------
(* Properties of the classifier.                                           *)
FailedChunks == {k \in DOMAIN replies : replies[k].kind = "invalid_json"}

\* C2 (as claimed): every verdict in the classifier's list was returned for a
\* call whose chunk holds its questionId, and a verdict for another id is
\* ignored without stopping the run.
C2_Provenance ==
    /\ pcClassify # "StopIteration"
    /\ \A n \in DOMAIN responses :
          \E k \in DOMAIN replies :
              /\ Contains(replies[k].items, responses[n])
              /\ Contains(calls[k], responses[n].questionId)

\* C3 (as claimed): a chunk whose reply cannot be parsed does not abort the
\* run; at the end the verdicts of the chunks that parsed are all in the
\* output, none of a failed chunk is, and the caller is handed exactly the
\* failed chunks.
C3_PartialFailureIsolated ==
    /\ pcClassify # "JSONDecodeError"
    /\ pcClassify = "done" =>
          /\ \A k \in DOMAIN replies : \A n \in DOMAIN replies[k].items :
                 Contains(calls[k], replies[k].items[n].questionId)
                     => \E m \in DOMAIN responses :
                            responses[m].questionId = replies[k].items[n].questionId
          /\ ReportedFailures = FailedChunks

\* The questions sent so far, in the order they were sent.
SentQuestions == Concat(calls)

\* C11: the chunks sent are contiguous pieces of the question list in its
\* order: together they are an initial part of the list, and the whole list
\* when the loop has run to its end; no chunk is empty or longer than
\* batch_size, every chunk but the last has exactly batch_size questions, and
\* the length of the k-th chunk follows from k, batch_size and the length of
\* the list alone.
C11_ChunksPartitionTheList ==
    /\ Len(SentQuestions) <= Len(formatted_data)
    /\ SentQuestions = SubSeq(formatted_data, 1, Len(SentQuestions))
    /\ pcClassify = "done" => SentQuestions = formatted_data
    /\ \A k \in DOMAIN calls :
          /\ calls[k] # <<>>
          /\ Len(calls[k]) <= batch_size
          /\ k < Len(calls) => Len(calls[k]) = batch_size
          /\ Len(calls[k]) < batch_size => SentQuestions = formatted_data
          /\ LET rest == Len(formatted_data) - (k - 1) * batch_size
             IN  Len(calls[k]) = IF rest < batch_size THEN rest ELSE batch_size

\* C11's case: a run has ended that sent a full chunk and then a shorter one.
C11_Witness ==
    /\ pcClassify = "done"
    /\ Len(calls) >= 2
    /\ Len(calls[1]) = batch_size
    /\ Len(calls[Len(calls)]) < batch_size

\* C12 (as claimed): a reply that is a single verdict object counts as the
\* list of that object: as long as every reply was a single object, no
\* exception has been raised and the verdicts collected are exactly those
\* objects, one per reply.
C12_SingleObjectIsOneVerdict ==
    (\A k \in DOMAIN replies : replies[k].kind = "object") =>
        /\ pcClassify \in {"loop", "done"}
        /\ responses = Concat([k \in DOMAIN replies |-> replies[k].items])

\* The chunks whose reply holds an object that is no verdict.
MalformedChunks ==
    {k \in DOMAIN replies :
        \E n \in DOMAIN replies[k].items : IsMalformed(replies[k].items[n])}

\* C13 (as claimed): an object without questionId or isValid, or with an
\* isValid that is no boolean, raises nothing that leaves the classifier, and
\* at the end of the run no object of that chunk's reply is in the output.
C13_SchemaFailureIsChunkAtomic ==
    /\ pcClassify # "KeyError"
    /\ pcClassify = "done" =>
          \A k \in MalformedChunks : \A n \in DOMAIN replies[k].items :
              ~Contains(responses, replies[k].items[n])

\* C14 (as claimed): in the list the classifier returns no questionId occurs
\* more than once.
C14_OneVerdictPerQuestion ==
    pcClassify = "done" =>
        \A m, n \in DOMAIN responses :
            (/\ responses[m].questionId = responses[n].questionId
             /\ responses[m].questionId \notin {NaN, NotAnObject}) => m = n

\* ceil(n / size)
CeilDiv(n, size) == (n + size - 1) \div size

\* The number of the chunk that holds question q (0 when none does).
ChunkOf(q) ==
    IF \E n \in DOMAIN formatted_data : formatted_data[n] = q
    THEN ((CHOOSE n \in DOMAIN formatted_data : formatted_data[n] = q) - 1)
             \div batch_size + 1
    ELSE 0

\* C24 (as claimed): one call per chunk, in chunk order, each answered
\* before the next is made; the run ends after ceil(n / batch_size) calls;
\* and in the verdicts collected those of an earlier chunk stand before those
\* of a later chunk.
C24_SequentialBatches ==
    /\ Len(replies) = Len(calls)
    /\ \A k \in DOMAIN calls :
          calls[k] = batch_at(formatted_data, (k - 1) * batch_size, batch_size)
    /\ pcClassify # "loop" =>
          Len(calls) = CeilDiv(Len(formatted_data), batch_size)
    /\ \A m, n \in DOMAIN responses :
          (/\ m < n
           /\ ChunkOf(responses[m].questionId) > 0
           /\ ChunkOf(responses[n].questionId) > 0)
              => ChunkOf(responses[m].questionId) <= ChunkOf(responses[n].questionId)

-----------------------------------------------------------------------------
(* Reconciling: polling_isValid_testing.compare_llm_with_final.            *)
(* A row of an _isvalid_llm / _isvalid_final file is modelled by its       *)
(* QuestionID, its RespTxt and its isValid; the other sixteen columns the  *)
(* files are joined on are the same in all rows of the model.  The file    *)
(* lists name one pair of files.                                           *)
MaxCmpRows == 2       \* rows in a file that is compared

\* The QuestionIDs in ascending order (sort_values, groupby).
QuestionOrder == <<"Q1", "Q2">>

CmpRowPool ==
    {[QuestionID |-> k[1], RespTxt |-> k[2], isValid |-> v] :
        k \in {<<"Q1", "Roosevelt">>, <<"Q1", "Others">>, <<"Q2", "Roosevelt">>},
        v \in IsValidValues}

\* df.sort_values('QuestionID'): rows in ascending QuestionID; rows of one
\* question keep their order (files of this size are insertion-sorted).
sort_values(rows) ==
    Concat([n \in DOMAIN QuestionOrder |->
               SelectSeq(rows, LAMBDA r : r.QuestionID = QuestionOrder[n])])

\* pd.merge(llm_df, final_df, on=[...], suffixes=('_llm', '_final')): the
\* inner join, in the order of the left rows, each with the right rows of the
\* same key in their order.
merge_inner(llm_df, final_df) ==
    LET joined(l) ==
            LET m == SelectSeq(final_df, LAMBDA r :
                         r.QuestionID = l.QuestionID /\ r.RespTxt = l.RespTxt)
            IN  [k \in DOMAIN m |->
                    [QuestionID |-> l.QuestionID, RespTxt |-> l.RespTxt,
                     isValid_llm |-> l.isValid, isValid_final |-> m[k].isValid]]
    IN  Concat([k \in DOMAIN llm_df |-> joined(llm_df[k])])

\* a != b on cells: a missing value differs from everything, itself included.
cell_ne(a, b) == a = NaN \/ b = NaN \/ a # b

\* merged_df[merged_df['isValid_llm'] != merged_df['isValid_final']]
disagreeing_rows(merged_df) ==
    SelectSeq(merged_df, LAMBDA r : cell_ne(r.isValid_llm, r.isValid_final))

\* The blocks written for disagreements.groupby('QuestionID'), in ascending
\* QuestionID: the id, the group's responses, and the two verdicts of the
\* group's last row (`row` is the leftover variable of the response loop).
disagreement_blocks(disagreements) ==
    LET block(q) ==
            LET group == SelectSeq(disagreements, LAMBDA r : r.QuestionID = q)
            IN  IF group = <<>> THEN <<>>
                ELSE <<[QuestionID |-> q,
                        Responses |-> [k \in DOMAIN group |-> group[k].RespTxt],
                        isValid_llm |-> group[Len(group)].isValid_llm,
                        isValid_final |-> group[Len(group)].isValid_final]>>
    IN  Concat([n \in DOMAIN QuestionOrder |-> block(QuestionOrder[n])])

\* (mutant) the value of the group's first row, missing or not
first_row_value(values) == IF values = <<>> THEN NaN ELSE Head(values)

\* groupby('QuestionID')[col].first() for one question: the first value that
\* is not missing (GroupBy.first skips missing values), missing if all are.
RECURSIVE first_valid(_)
first_valid(values) ==
    IF values = <<>> THEN NaN
    ELSE IF Head(values) # NaN THEN Head(values)
    ELSE first_valid(Tail(values))

groupby_first(merged_df, col, q) ==
    LET group == SelectSeq(merged_df, LAMBDA r : r.QuestionID = q)
    IN  first_valid([k \in DOMAIN group |-> group[k][col]])

\* merged_df['QuestionID'].unique() as a set
question_ids(merged_df) == {merged_df[k].QuestionID : k \in DOMAIN merged_df}

\* (groupby first of isValid_llm == groupby first of isValid_final).sum()
matching_questions(merged_df) ==
    {q \in question_ids(merged_df) :
        ~cell_ne(groupby_first(merged_df, "isValid_llm", q),
                 groupby_first(merged_df, "isValid_final", q))}

merged_of(k) ==
    merge_inner(sort_values(llm_files[k]), sort_values(final_files[k]))

\* The files the specification compares: up to MaxCmpRows rows, a
\* (question, response) row at most once per file, in any order.
CmpFiles ==
    {f \in SeqsUpTo(CmpRowPool, MaxCmpRows) :
        \A a, b \in DOMAIN f :
            (f[a].QuestionID = f[b].QuestionID /\ f[a].RespTxt = f[b].RespTxt)
                => a = b}

InitCompare ==
    /\ llm_files \in {<<f>> : f \in CmpFiles}
    /\ final_files \in {<<f>> : f \in CmpFiles}
    /\ file_index = 0
    /\ total_questions = 0
    /\ correct_predictions = 0
    /\ success_rate = [num |-> 0, den |-> 0]
    /\ report = <<>>
    /\ pcCompare = "loop"

\* One pass of `for i in range(len(llm_filenames))`.
ComparePair ==
    /\ pcCompare = "loop"
    /\ file_index < Len(llm_files)
    /\ LET merged_df == merged_of(file_index + 1)
       IN  /\ report' = report \o disagreement_blocks(disagreeing_rows(merged_df))
           /\ total_questions' =
                  total_questions + Cardinality(question_ids(merged_df))
           /\ correct_predictions' =
                  correct_predictions + Cardinality(matching_questions(merged_df))
    /\ file_index' = file_index + 1
    /\ UNCHANGED <<llm_files, final_files, success_rate, pcCompare>>

\* After the loop: success_rate = (correct_predictions / total_questions) * 100
\* and the three summary lines are written; the division raises
\* ZeroDivisionError when no question was joined.  The rate is kept as the
\* fraction num / den.
WriteResults ==
    /\ pcCompare = "loop"
    /\ file_index >= Len(llm_files)
    /\ IF total_questions = 0
       THEN /\ pcCompare' = "ZeroDivisionError"
            /\ UNCHANGED success_rate
       ELSE /\ success_rate' = [num |-> correct_predictions * 100,
                                den |-> total_questions]
            /\ pcCompare' = "written"
    /\ UNCHANGED <<llm_files, final_files, file_index, total_questions,
                   correct_predictions, report>>

NextCompare ==
    \/ ComparePair /\ UNCHANGED <<mergeVars, classifyVars, groupVars, guiVars, promptVars, appVars>>
    \/ WriteResults /\ UNCHANGED <<mergeVars, classifyVars, groupVars, guiVars, promptVars, appVars>>

InitSpecCompare == InitCompare /\ IdleMerge /\ IdleClassify /\ IdleGroup /\ IdleGui /\ IdlePrompt /\ IdleApp

SpecCompare == InitSpecCompare /\ [][NextCompare]_vars

-----------------------------------------------------------------------------
(* Properties of the reconciliation.                                       *)
JoinResult == merged_of(1)

JoinRowsOf(q) == SelectSeq(JoinResult, LAMBDA r : r.QuestionID = q)

RateIs(n) == success_rate.num = n * success_rate.den

\* C4 (as claimed): for a non-empty join the rate lies in 0..100, and it is
\* 100 exactly when no disagreement is reported.
C4_RateBoundsAndFullAgreement ==
    (pcCompare = "written" /\ JoinResult # <<>>) =>
        /\ 0 <= success_rate.num
        /\ success_rate.num <= 100 * success_rate.den
        /\ RateIs(100) <=> report = <<>>

\* The questions whose verdicts in the first row of the join are equal.
FirstRowMatches ==
    {q \in question_ids(JoinResult) :
        ~cell_ne(JoinRowsOf(q)[1].isValid_llm, JoinRowsOf(q)[1].isValid_final)}

\* The value of `col` in the earliest row of question q that has one.
EarliestValue(q, col) ==
    LET rows == JoinRowsOf(q)
        has == {k \in DOMAIN rows : rows[k][col] # NaN}
    IN  IF has = {} THEN NaN
        ELSE rows[CHOOSE k \in has : \A j \in has : k <= j][col]

\* The questions whose earliest non-null verdicts of the two sides are equal.
EarliestVerdictMatches ==
    {q \in question_ids(JoinResult) :
        /\ EarliestValue(q, "isValid_llm") # NaN
        /\ EarliestValue(q, "isValid_llm") = EarliestValue(q, "isValid_final")}

\* Machine {Q1: true, Q2: false} against human {Q1: true, Q2: true}.
ScenarioFiles ==
    /\ llm_files = <<<<[QuestionID |-> "Q1", RespTxt |-> "Roosevelt", isValid |-> "True"],
                       [QuestionID |-> "Q2", RespTxt |-> "Roosevelt", isValid |-> "False"]>>>>
    /\ final_files = <<<<[QuestionID |-> "Q1", RespTxt |-> "Roosevelt", isValid |-> "True"],
                         [QuestionID |-> "Q2", RespTxt |-> "Roosevelt", isValid |-> "True"]>>>>

ScenarioResult ==
    /\ RateIs(50)
    /\ Len(report) = 1
    /\ report[1].QuestionID = "Q2"

DifferingQuestions ==
    {q \in question_ids(JoinResult) :
        \E k \in DOMAIN JoinRowsOf(q) :
            cell_ne(JoinRowsOf(q)[k].isValid_llm, JoinRowsOf(q)[k].isValid_final)}

\* C19 (as claimed): there is one disagreement group for exactly each
\* question whose verdicts differ, in the order of the joined rows; a group
\* carries all response rows of its question, not only those whose verdicts
\* differ, and two verdicts that differ.
C19_DisagreementGroupsAreComplete ==
    pcCompare \in {"written", "ZeroDivisionError"} =>
        /\ {report[n].QuestionID : n \in DOMAIN report} = DifferingQuestions
        /\ \A m, n \in DOMAIN report :
              m < n => \E a, b \in DOMAIN QuestionOrder :
                           /\ a < b
                           /\ QuestionOrder[a] = report[m].QuestionID
                           /\ QuestionOrder[b] = report[n].QuestionID
        /\ \A n \in DOMAIN report :
              /\ report[n].Responses =
                     [k \in DOMAIN JoinRowsOf(report[n].QuestionID) |->
                         JoinRowsOf(report[n].QuestionID)[k].RespTxt]
              /\ cell_ne(report[n].isValid_llm, report[n].isValid_final)

\* The three summary lines that end the results file: "Success Rate",
\* "Number of errors" and "Total questions".  Nothing else is written after
\* the disagreement blocks.
written_results ==
    [success_rate |-> success_rate,
     number_of_errors |-> total_questions - correct_predictions,
     total_questions |-> total_questions]

\* The rows of one file that have no row of the same key in the other.
without_partner(df, other) ==
    SelectSeq(df, LAMBDA r :
        ~\E k \in DOMAIN other :
            other[k].QuestionID = r.QuestionID /\ other[k].RespTxt = r.RespTxt)

UnjoinedRows ==
    Len(without_partner(llm_files[1], final_files[1]))
        + Len(without_partner(final_files[1], llm_files[1]))

\* C20 (as claimed): when rows of either file find no partner on the key
\* columns, the result of the comparison states how many rows were left
\* unjoined.
C20_UnjoinedRowsAreCounted ==
    (pcCompare = "written" /\ UnjoinedRows > 0) =>
        /\ "unjoined_rows" \in DOMAIN written_results
        /\ written_results["unjoined_rows"] = UnjoinedRows

\* The joined questions whose rows carry two different verdicts, neither of
\* them missing, on one side of the join.
DivergentQuestions ==
    {q \in question_ids(JoinResult) :
        \E a, b \in DOMAIN JoinRowsOf(q) : \E col \in {"isValid_llm", "isValid_final"} :
            /\ JoinRowsOf(q)[a][col] # NaN
            /\ JoinRowsOf(q)[b][col] # NaN
            /\ JoinRowsOf(q)[a][col] # JoinRowsOf(q)[b][col]}

\* C21 (as claimed): a question whose rows carry different verdicts within
\* one side is reported as a defect and is not counted among the questions
\* that match or mismatch.
C21_DivergenceWithinASideIsReported ==
    (pcCompare = "written" /\ DivergentQuestions # {}) =>
        /\ "divergent_questions" \in DOMAIN written_results
        /\ written_results["divergent_questions"] = DivergentQuestions
        /\ total_questions
               = Cardinality(question_ids(JoinResult) \ DivergentQuestions)

-----------------------------------------------------------------------------
(* Grouping: process_polls.format_polls (polling.py's                      *)
(* format_general_election_polling is the same code) and                   *)
(* process_polling.format_polling.                                         *)
MaxGroupRows == 3     \* rows in a file that is grouped

\* (mutant) the distinct values in ascending order, as groupby yields them
unique_ascending(rows) ==
    SelectSeq(QuestionOrder,
              LAMBDA q : \E k \in DOMAIN rows : rows[k].QuestionID = q)

\* df['QuestionID'].unique(): the values in order of first appearance.
unique(rows) ==
    LET ids == [k \in DOMAIN rows |-> rows[k].QuestionID]
        F[k \in 0..Len(ids)] ==
            IF k = 0 THEN <<>>
            ELSE IF Contains(F[k - 1], ids[k]) THEN F[k - 1]
            ELSE Append(F[k - 1], ids[k])
    IN  F[Len(ids)]

\* (mutant) only the first row of the question gives a response
responses_of_first_row(question_data) ==
    <<[ResponseText |-> question_data[1].RespTxt,
       ResponsePct |-> question_data[1].RespPct]>>

\* "Responses": [{"ResponseText": row['RespTxt'], "ResponsePct": row['RespPct']}
\*               for _, row in question_data.iterrows()]
responses_of(question_data) ==
    [k \in DOMAIN question_data |->
        [ResponseText |-> question_data[k].RespTxt,
         ResponsePct |-> question_data[k].RespPct]]

\* format_polls(filename): one dict per QuestionID, in order of first
\* appearance, text and dates from the question's first row.
format_polls(file) ==
    LET ids == unique(file)
    IN  [n \in DOMAIN ids |->
            LET question_data == SelectSeq(file, LAMBDA r : r.QuestionID = ids[n])
            IN  [QuestionID |-> ids[n],
                 QuestionText |-> question_data[1].QuestionTxt,
                 BegDate |-> question_data[1].BegDate,
                 EndDate |-> question_data[1].EndDate,
                 Responses |-> responses_of(question_data)]]

\* election_dates_dictionary, for the years the model calls format_polling
\* with and the elections before them.
ElectionYears == {1936, 1940, 2024}
election_dates_dictionary ==
    (1936 :> 19361103) @@ (1940 :> 19401105) @@ (2020 :> 20201103)
    @@ (2024 :> 20241105)

\* start_date = election date of year-4 + 1 day, unless year is 1936;
\* end_date = election date of year - 1 day, unless year is 2024.  Every
\* election day lies between 2 and 8 November, so the day before and the
\* day after are the neighbouring integers.  0 stands for None.
start_date(y) == IF y # 1936 THEN election_dates_dictionary[y - 4] + 1 ELSE 0
end_date(y)   == IF y # 2024 THEN election_dates_dictionary[y] - 1 ELSE 0

\* The rows the filter of format_polling keeps.
filter_by_year(rows, y) ==
    IF start_date(y) # 0 /\ end_date(y) # 0
    THEN SelectSeq(rows, LAMBDA r :
             r.BegDate >= start_date(y) /\ r.EndDate <= end_date(y))
    ELSE IF start_date(y) # 0
    THEN SelectSeq(rows, LAMBDA r : r.BegDate >= start_date(y))
    ELSE IF end_date(y) # 0
    THEN SelectSeq(rows, LAMBDA r : r.EndDate <= end_date(y))
    ELSE rows

QuestionRank(q) == CHOOSE n \in DOMAIN QuestionOrder : QuestionOrder[n] = q

\* Row a comes before row b by (BegDate, EndDate, QuestionID).
sorts_before(a, b) ==
    \/ a.BegDate < b.BegDate
    \/ a.BegDate = b.BegDate /\ a.EndDate < b.EndDate
    \/ /\ a.BegDate = b.BegDate
       /\ a.EndDate = b.EndDate
       /\ QuestionRank(a.QuestionID) < QuestionRank(b.QuestionID)

\* (mutant) the sort with the latest rows first (ascending=False)
RECURSIVE sort_rows_descending(_)
sort_rows_descending(rows) ==
    IF rows = <<>> THEN <<>>
    ELSE LET rest == sort_rows_descending(SubSeq(rows, 1, Len(rows) - 1))
             x == rows[Len(rows)]
             before == SelectSeq(rest, LAMBDA r : ~sorts_before(r, x))
             after == SelectSeq(rest, LAMBDA r : sorts_before(r, x))
         IN  before \o <<x>> \o after

\* df.sort_values(['BegDate', 'EndDate', 'QuestionID']): a sort on several
\* columns is a stable sort (rows with equal keys keep their order).
RECURSIVE sort_rows(_)
sort_rows(rows) ==
    IF rows = <<>> THEN <<>>
    ELSE LET rest == sort_rows(SubSeq(rows, 1, Len(rows) - 1))
             x == rows[Len(rows)]
             before == SelectSeq(rest, LAMBDA r : ~sorts_before(x, r))
             after == SelectSeq(rest, LAMBDA r : sorts_before(x, r))
         IN  before \o <<x>> \o after

\* format_polling(filename, year): sort, filter by the election cycle, then
\* one dict per QuestionID in order of first appearance.
format_polling(file, y) ==
    LET df == filter_by_year(sort_rows(file), y)
        ids == unique(df)
    IN  [n \in DOMAIN ids |->
            LET question_data == SelectSeq(df, LAMBDA r : r.QuestionID = ids[n])
            IN  [QuestionID |-> ids[n],
                 QuestionText |-> question_data[1].QuestionTxt,
                 Responses |-> responses_of(question_data)]]

\* The rows the grouping specification draws its files from: two questions
\* with two response options each, polled before the 1936 election, between
\* the 1936 and the 1940 election or after the 2020 election; the first
\* question has rows with a second wording, polled a day later within the
\* 1940 cycle.
GroupDates == {<<19361101, 19361102>>, <<19361104, 19401104>>,
               <<20201104, 20241101>>}

GroupRowPool ==
    {Row(q, r, IF r = "Roosevelt" THEN "49" ELSE "*",
         IF q = "Q1" THEN "Whom do you prefer?" ELSE "Who will win?",
         d[1], d[2]) :
        q \in QuestionIDs, r \in {"Roosevelt", "Others"}, d \in GroupDates}
    \cup
    {Row("Q1", r, IF r = "Roosevelt" THEN "49" ELSE "*",
         "Whom would you vote for?", 19361105, 19401103) :
        r \in {"Roosevelt", "Others"}}

InitGroup ==
    /\ raw_file \in SeqsUpTo(GroupRowPool, MaxGroupRows)
    /\ processed_df = <<>>
    /\ llm_file = NoTable
    /\ result_df = NoTable
    /\ pcMerge = {}
    /\ file_columns = RawColumns
    /\ year = 0
    /\ formatted = <<>>
    /\ pcGroup = "start"

\* format_polls raises KeyError at df['QuestionID'] when the file has no
\* such column, and at question_data['QuestionTxt'] ... row['RespPct'] for
\* the first question when one of the columns read there is absent.
format_polls_raises(file, cols) ==
    \/ ~Contains(cols, "QuestionID")
    \/ /\ file # <<>>
       /\ \E c \in {"QuestionTxt", "BegDate", "EndDate", "RespTxt", "RespPct"} :
             ~Contains(cols, c)

\* format_polling raises KeyError at sort_values when one of the sort columns
\* is absent, and at question_data['QuestionTxt'] ... row['RespPct'] for the
\* first question that is left after the filter.
format_polling_raises(file, cols, y) ==
    \/ \E c \in {"BegDate", "EndDate", "QuestionID"} : ~Contains(cols, c)
    \/ /\ filter_by_year(sort_rows(file), y) # <<>>
       /\ \E c \in {"QuestionTxt", "RespTxt", "RespPct"} : ~Contains(cols, c)

\* process_polls.main: formatted_data = format_polls(filename)
FormatPolls ==
    /\ pcGroup = "start"
    /\ IF format_polls_raises(raw_file, file_columns)
       THEN /\ pcGroup' = "KeyError"
            /\ UNCHANGED formatted
       ELSE /\ formatted' = format_polls(raw_file)
            /\ pcGroup' = "format_polls"
    /\ UNCHANGED <<file_columns, year>>

\* process_polling.main: formatted_data = format_polling(filename, year)
FormatPolling ==
    /\ pcGroup = "start"
    /\ \E y \in ElectionYears :
          /\ year' = y
          /\ IF format_polling_raises(raw_file, file_columns, y)
             THEN /\ pcGroup' = "KeyError"
                  /\ UNCHANGED formatted
             ELSE /\ formatted' = format_polling(raw_file, y)
                  /\ pcGroup' = "format_polling"
    /\ UNCHANGED file_columns

NextGroup ==
    \/ FormatPolls /\ UNCHANGED <<mergeVars, classifyVars, compareVars, guiVars, promptVars, appVars>>
    \/ FormatPolling /\ UNCHANGED <<mergeVars, classifyVars, compareVars, guiVars, promptVars, appVars>>

InitSpecGroup == InitGroup /\ IdleClassify /\ IdleCompare /\ IdleGui /\ IdlePrompt /\ IdleApp

SpecGroup == InitSpecGroup /\ [][NextGroup]_vars

\* Grouping files that may lack a column.
MaxSchemaRows == 2    \* rows in a file that may lack a column

InitSchema ==
    /\ raw_file \in SeqsUpTo(GroupRowPool, MaxSchemaRows)
    /\ processed_df = <<>>
    /\ llm_file = NoTable
    /\ result_df = NoTable
    /\ pcMerge = {}
    /\ file_columns \in
          {RawColumns} \cup
          {SelectSeq(RawColumns, LAMBDA c : c # absent) : absent \in Range(RawColumns)}
    /\ year = 0
    /\ formatted = <<>>
    /\ pcGroup = "start"

InitSpecSchema == InitSchema /\ IdleClassify /\ IdleCompare /\ IdleGui /\ IdlePrompt /\ IdleApp

SpecSchema == InitSpecSchema /\ [][NextGroup]_vars

\* ---- properties of grouping
\* The flat rows (questionId, questionText, responseText, responsePct) that
\* a list of question dicts stands for.
Flatten(questions) ==
    Concat([n \in DOMAIN questions |->
        [k \in DOMAIN questions[n].Responses |->
            <<questions[n].QuestionID, questions[n].QuestionText,
              questions[n].Responses[k].ResponseText,
              questions[n].Responses[k].ResponsePct>>]])

TuplesOf(rows) ==
    [k \in DOMAIN rows |->
        <<rows[k].QuestionID, rows[k].QuestionTxt, rows[k].RespTxt,
          rows[k].RespPct>>]

WithoutText(tuples) ==
    [k \in DOMAIN tuples |-> <<tuples[k][1], tuples[k][3], tuples[k][4]>>]

CountIn(seq, x) == Cardinality({k \in DOMAIN seq : seq[k] = x})

SameMultiset(a, b) ==
    /\ Len(a) = Len(b)
    /\ \A x \in Range(a) \cup Range(b) : CountIn(a, x) = CountIn(b, x)

\* The rows of the file that lie in the election cycle of year y.
InCycle(r, y) ==
    /\ y = 1936 \/ r.BegDate > election_dates_dictionary[y - 4]
    /\ y = 2024 \/ r.EndDate < election_dates_dictionary[y]

GroupedRows ==
    IF pcGroup = "format_polling"
    THEN SelectSeq(raw_file, LAMBDA r : InCycle(r, year))
    ELSE raw_file

TextsAgree(rows) ==
    \A a, b \in DOMAIN rows :
        rows[a].QuestionID = rows[b].QuestionID
            => rows[a].QuestionTxt = rows[b].QuestionTxt

\* The first grouped row of question q: the first in the file for
\* format_polls, the earliest by begin date, then end date, then position in
\* the file for format_polling.
FirstGroupedRow(q) ==
    LET rows == SelectSeq(GroupedRows, LAMBDA r : r.QuestionID = q)
        earlier(a, b) ==
            \/ pcGroup # "format_polling"
            \/ rows[a].BegDate < rows[b].BegDate
            \/ rows[a].BegDate = rows[b].BegDate /\ rows[a].EndDate <= rows[b].EndDate
        k == CHOOSE a \in DOMAIN rows :
                 \A b \in DOMAIN rows :
                     IF a < b THEN earlier(a, b) ELSE ~earlier(b, a) \/ a = b
    IN  rows[k]

FirstGroupedText(q) == FirstGroupedRow(q).QuestionTxt

FirstIndex(q) ==
    CHOOSE k \in DOMAIN raw_file :
        /\ raw_file[k].QuestionID = q
        /\ \A j \in 1..(k - 1) : raw_file[j].QuestionID # q

\* Question a comes before question b in the sequence that is grouped: by
\* first appearance in the file for format_polls, by the begin date, the end
\* date and the QuestionID of their first rows for format_polling.
ComesFirst(a, b) ==
    IF pcGroup = "format_polls" THEN FirstIndex(a) < FirstIndex(b)
    ELSE LET ra == FirstGroupedRow(a)
             rb == FirstGroupedRow(b)
         IN  \/ ra.BegDate < rb.BegDate
             \/ ra.BegDate = rb.BegDate /\ ra.EndDate < rb.EndDate
             \/ /\ ra.BegDate = rb.BegDate
                /\ ra.EndDate = rb.EndDate
                /\ QuestionRank(a) < QuestionRank(b)

Rearrangements(n) ==
    {f \in [1..n -> 1..n] : \A a, b \in 1..n : f[a] = f[b] => a = b}

\* `listed` holds the responses of the rows in the order they are encountered: in the order
\* of the file for format_polls, by begin date and end date and, for equal
\* dates, in the order of the file for format_polling.
InEncounterOrder(listed, rows) ==
    /\ Len(listed) = Len(rows)
    /\ \E f \in Rearrangements(Len(rows)) :
          /\ \A k \in DOMAIN rows :
                listed[k] = [ResponseText |-> rows[f[k]].RespTxt,
                                ResponsePct |-> rows[f[k]].RespPct]
          /\ \A k, l \in DOMAIN rows :
                k < l =>
                    IF pcGroup = "format_polls" THEN f[k] < f[l]
                    ELSE \/ rows[f[k]].BegDate < rows[f[l]].BegDate
                         \/ /\ rows[f[k]].BegDate = rows[f[l]].BegDate
                            /\ rows[f[k]].EndDate < rows[f[l]].EndDate
                         \/ /\ rows[f[k]].BegDate = rows[f[l]].BegDate
                            /\ rows[f[k]].EndDate = rows[f[l]].EndDate
                            /\ f[k] < f[l]

RequiredColumns == {"QuestionID", "QuestionTxt", "RespTxt", "RespPct"}

\* C18 (as claimed): when a required column is absent the grouping fails
\* with an error and has produced no question; when all columns are there it
\* does not fail, whether or not the rows of a question agree on the text.
C18_FailsOnAbsentColumn ==
    pcGroup # "start" =>
        IF RequiredColumns \subseteq Range(file_columns)
        THEN Range(RawColumns) \subseteq Range(file_columns)
                 => pcGroup \in {"format_polls", "format_polling"}
        ELSE pcGroup \in {"SchemaError", "KeyError"} /\ formatted = <<>>

-----------------------------------------------------------------------------
(* Reviewing: polling_isValid_gui.PollingDataEvaluationGUI, which lets a   *)
(* reviewer switch verdicts and saves them, and check_poll_validity's      *)
(* PollGui, which only shows them.  A row of the file is modelled by its   *)
(* QuestionID, its RespTxt and its isValid.                                *)
MaxGuiRows == 3       \* rows in a file that is reviewed

\* The files the GUIs are opened on: a (question, response) row at most once.
GuiFiles ==
    {f \in SeqsUpTo(CmpRowPool, MaxGuiRows) :
        \A a, b \in DOMAIN f :
            (f[a].QuestionID = f[b].QuestionID /\ f[a].RespTxt = f[b].RespTxt)
                => a = b}

\* group_data: df.groupby('QuestionID').agg({... 'RespTxt': list,
\* 'isValid': 'first'}).reset_index(): one row per question in ascending
\* QuestionID, with the first verdict that is not missing.
group_data(df) ==
    LET group(q) == SelectSeq(df, LAMBDA r : r.QuestionID = q)
        entry(q) ==
            IF group(q) = <<>> THEN <<>>
            ELSE <<[QuestionID |-> q,
                    RespTxt |-> [k \in DOMAIN group(q) |-> group(q)[k].RespTxt],
                    isValid |-> first_valid([k \in DOMAIN group(q) |->
                                                group(q)[k].isValid])]>>
    IN  Concat([n \in DOMAIN QuestionOrder |-> entry(QuestionOrder[n])])

\* update_validity_label(is_valid)
update_validity_label(is_valid) ==
    IF is_valid = NaN THEN [text |-> "Unknown", color |-> "gray"]
    ELSE IF is_valid = "True" THEN [text |-> "Valid", color |-> "green"]
    ELSE [text |-> "Invalid", color |-> "red"]

\* Python's truth value of a cell: False is false; True and NaN (a float that
\* is not zero) are true.
truthy(v) == v # "False"

\* PollGui.update_display, "Update validity label": is_valid is the value of
\* the question's first row; 'green' if is_valid else 'red'.
poll_gui_label(is_valid) ==
    [text |-> IF is_valid = NaN THEN "Valid: nan"
              ELSE IF is_valid = "True" THEN "Valid: True" ELSE "Valid: False",
     color |-> IF truthy(is_valid) THEN "green" ELSE "red"]

\* save_results: every row of the file with the verdict of its question in
\* grouped_data.
save_results(df, grouped) ==
    [k \in DOMAIN df |->
        [df[k] EXCEPT !.isValid =
            LET g == SelectSeq(grouped, LAMBDA e : e.QuestionID = df[k].QuestionID)
            IN  IF g = <<>> THEN NaN ELSE g[1].isValid]]

InitGui ==
    /\ gui_df \in GuiFiles
    /\ grouped_data = <<>>
    /\ current_index = 0
    /\ current_question_index = 0
    /\ validity_label = NoLabel
    /\ final_file = <<>>
    /\ pcGui = "start"

\* PollingDataEvaluationGUI.__init__: read the file, group it, show the first
\* poll (iloc[0] of an empty table raises IndexError).
RunGui ==
    /\ pcGui = "start"
    /\ grouped_data' = group_data(gui_df)
    /\ IF group_data(gui_df) = <<>>
       THEN /\ pcGui' = "IndexError"
            /\ UNCHANGED validity_label
       ELSE /\ pcGui' = "evaluation"
            /\ validity_label' = update_validity_label(group_data(gui_df)[1].isValid)
    /\ UNCHANGED <<gui_df, current_index, current_question_index, final_file>>

\* (mutant) switch_validity that negates a missing verdict as well: not nan
\* is False.
switch_validity_negating_nan ==
    /\ pcGui = "evaluation"
    /\ LET current_validity == grouped_data[current_index + 1].isValid
           new_validity == IF current_validity = "False" THEN "True" ELSE "False"
       IN  /\ grouped_data' =
                  [grouped_data EXCEPT ![current_index + 1].isValid = new_validity]
           /\ validity_label' = update_validity_label(new_validity)
    /\ UNCHANGED <<gui_df, current_index, current_question_index, final_file, pcGui>>

\* switch_validity: a missing verdict becomes True, another one its negation.
SwitchValidity ==
    /\ pcGui = "evaluation"
    /\ LET current_validity == grouped_data[current_index + 1].isValid
           new_validity == IF current_validity = NaN THEN "True"
                           ELSE IF current_validity = "True" THEN "False"
                           ELSE "True"
       IN  /\ grouped_data' =
                  [grouped_data EXCEPT ![current_index + 1].isValid = new_validity]
           /\ validity_label' = update_validity_label(new_validity)
    /\ UNCHANGED <<gui_df, current_index, current_question_index, final_file, pcGui>>

\* previous_poll
PreviousPoll ==
    /\ pcGui = "evaluation"
    /\ IF current_index > 0
       THEN /\ current_index' = current_index - 1
            /\ validity_label' = update_validity_label(grouped_data[current_index].isValid)
       ELSE UNCHANGED <<current_index, validity_label>>
    /\ UNCHANGED <<gui_df, grouped_data, current_question_index, final_file, pcGui>>

\* (mutant) next_poll with the bound off by one: the index moves past the
\* last poll, where load_current_poll fails and shows nothing new.
next_poll_one_too_far ==
    /\ pcGui = "evaluation"
    /\ IF current_index < Len(grouped_data)
       THEN /\ current_index' = current_index + 1
            /\ validity_label' =
                   IF current_index + 2 \in DOMAIN grouped_data
                   THEN update_validity_label(grouped_data[current_index + 2].isValid)
                   ELSE validity_label
            /\ UNCHANGED <<final_file, pcGui>>
       ELSE /\ final_file' = save_results(gui_df, grouped_data)
            /\ pcGui' = "quit"
            /\ UNCHANGED <<current_index, validity_label>>
    /\ UNCHANGED <<gui_df, grouped_data, current_question_index>>

\* next_poll: the next poll, or save_results and quit after the last one.
NextPoll ==
    /\ pcGui = "evaluation"
    /\ IF current_index < Len(grouped_data) - 1
       THEN /\ current_index' = current_index + 1
            /\ validity_label' =
                   update_validity_label(grouped_data[current_index + 2].isValid)
            /\ UNCHANGED <<final_file, pcGui>>
       ELSE /\ final_file' = save_results(gui_df, grouped_data)
            /\ pcGui' = "quit"
            /\ UNCHANGED <<current_index, validity_label>>
    /\ UNCHANGED <<gui_df, grouped_data, current_question_index>>

\* The value PollGui.update_display shows for the n-th question (from 0):
\* question_data['isValid'].iloc[0].
displayed_is_valid(df, n) ==
    SelectSeq(df, LAMBDA r : r.QuestionID = unique(df)[n + 1])[1].isValid

\* check_poll_validity: PollGui.__init__ shows the first question
\* (question_ids[0] of an empty file raises IndexError).
CheckPollValidity ==
    /\ pcGui = "start"
    /\ IF gui_df = <<>>
       THEN /\ pcGui' = "IndexError"
            /\ UNCHANGED validity_label
       ELSE /\ pcGui' = "viewer"
            /\ validity_label' = poll_gui_label(displayed_is_valid(gui_df, 0))
    /\ UNCHANGED <<gui_df, grouped_data, current_index, current_question_index,
                   final_file>>

\* PollGui.next: the next question, or close the window after the last one.
PollGuiNext ==
    /\ pcGui = "viewer"
    /\ IF current_question_index < Len(unique(gui_df)) - 1
       THEN /\ current_question_index' = current_question_index + 1
            /\ validity_label' =
                   poll_gui_label(displayed_is_valid(gui_df, current_question_index + 1))
            /\ UNCHANGED pcGui
       ELSE /\ pcGui' = "closed"
            /\ UNCHANGED <<current_question_index, validity_label>>
    /\ UNCHANGED <<gui_df, grouped_data, current_index, final_file>>

\* PollGui.previous
PollGuiPrevious ==
    /\ pcGui = "viewer"
    /\ IF current_question_index > 0
       THEN /\ current_question_index' = current_question_index - 1
            /\ validity_label' =
                   poll_gui_label(displayed_is_valid(gui_df, current_question_index - 1))
       ELSE UNCHANGED <<current_question_index, validity_label>>
    /\ UNCHANGED <<gui_df, grouped_data, current_index, final_file, pcGui>>

OtherThanGui == <<mergeVars, classifyVars, compareVars, groupVars, promptVars, appVars>>

NextGui ==
    \/ RunGui /\ UNCHANGED OtherThanGui
    \/ SwitchValidity /\ UNCHANGED OtherThanGui
    \/ PreviousPoll /\ UNCHANGED OtherThanGui
    \/ NextPoll /\ UNCHANGED OtherThanGui
    \/ CheckPollValidity /\ UNCHANGED OtherThanGui
    \/ PollGuiNext /\ UNCHANGED OtherThanGui
    \/ PollGuiPrevious /\ UNCHANGED OtherThanGui

InitSpecGui == InitGui /\ IdleMerge /\ IdleClassify /\ IdleCompare /\ IdleGroup /\ IdlePrompt /\ IdleApp

SpecGui == InitSpecGui /\ [][NextGui]_vars

\* ---- properties of reviewing
\* The verdict of the question on display.
DisplayedVerdict ==
    IF pcGui = "evaluation" THEN grouped_data[current_index + 1].isValid
    ELSE displayed_is_valid(gui_df, current_question_index)

\* C15 (as claimed): a question whose isValid is null is shown as unknown:
\* the label says neither valid nor invalid and has neither the colour of a
\* valid nor that of an invalid poll.
C15_NullShownAsUnknown ==
    (pcGui \in {"evaluation", "viewer"} /\ DisplayedVerdict = NaN) =>
        /\ validity_label.color \notin {"green", "red"}
        /\ validity_label.text \notin {"Valid", "Invalid", "Valid: True",
                                       "Valid: False", "Valid: nan"}

\* C25 (as claimed): the file on disk follows every edit: whenever the
\* verdicts in the evaluation GUI differ from those it read, the rows with
\* the present verdicts have been written.
C25_FileFollowsEveryEdit ==
    (pcGui = "evaluation" /\ grouped_data # group_data(gui_df)) =>
        final_file = save_results(gui_df, grouped_data)

\* C27: while the evaluation GUI is open on a file with rows, and after it
\* has quit, current_index names a poll of grouped_data.  The index goes
\* down only from an index above 0 and up only from an index below the last,
\* one poll at a time; and the GUI quits only at the last poll, writing the
\* rows with the present verdicts and leaving the index where it is.
C27_IndexWithinBounds ==
    /\ [](pcGui \in {"evaluation", "quit"} =>
            (0 <= current_index /\ current_index <= Len(grouped_data) - 1))
    /\ [][/\ current_index' < current_index =>
                (current_index > 0 /\ current_index' = current_index - 1)
          /\ current_index' > current_index =>
                (/\ current_index < Len(grouped_data) - 1
                 /\ current_index' = current_index + 1)
          /\ (pcGui = "evaluation" /\ pcGui' = "quit") =>
                (/\ current_index = Len(grouped_data) - 1
                 /\ current_index' = current_index
                 /\ final_file' = save_results(gui_df, grouped_data))]_vars

\* C27's case: the reviewer went to the last of at least two polls, went on
\* from there, and the GUI saved and quit with the index on the last poll.
C27_Witness ==
    /\ pcGui = "quit"
    /\ Len(grouped_data) >= 2
    /\ current_index = Len(grouped_data) - 1
    /\ final_file = save_results(gui_df, grouped_data)

\* The verdict switch_validity puts in the place of v.
Switched(v) == IF v = NaN THEN "True" ELSE IF v = "True" THEN "False" ELSE "True"

\* C29: a step of the open evaluation GUI that changes grouped_data changes
\* the verdict of the poll at current_index, and nothing else of it, to the
\* switched verdict, leaves the other polls and current_index as they are,
\* and switching a verdict that is not missing twice gives it back; and the
\* rows saved are the rows loaded, in their order, each with the verdict its
\* question has in grouped_data.
C29_SwitchChangesOnlyTheCurrentPoll ==
    /\ [][(pcGui = "evaluation" /\ grouped_data' # grouped_data) =>
            /\ current_index' = current_index
            /\ DOMAIN grouped_data' = DOMAIN grouped_data
            /\ \A n \in DOMAIN grouped_data :
                  /\ grouped_data'[n].QuestionID = grouped_data[n].QuestionID
                  /\ grouped_data'[n].RespTxt = grouped_data[n].RespTxt
                  /\ grouped_data'[n].isValid =
                         IF n = current_index + 1
                         THEN Switched(grouped_data[n].isValid)
                         ELSE grouped_data[n].isValid
            /\ grouped_data[current_index + 1].isValid # NaN =>
                  Switched(grouped_data'[current_index + 1].isValid)
                      = grouped_data[current_index + 1].isValid]_vars
    /\ [](pcGui = "quit" =>
            /\ DOMAIN final_file = DOMAIN gui_df
            /\ \A k \in DOMAIN gui_df :
                  /\ final_file[k].QuestionID = gui_df[k].QuestionID
                  /\ final_file[k].RespTxt = gui_df[k].RespTxt
                  /\ \E n \in DOMAIN grouped_data :
                        /\ grouped_data[n].QuestionID = gui_df[k].QuestionID
                        /\ final_file[k].isValid = grouped_data[n].isValid)

\* C29's case: a file of two questions was saved after a missing verdict was
\* switched on and the verdict of the other question was left alone.
C29_Witness ==
    /\ pcGui = "quit"
    /\ Len(grouped_data) = 2
    /\ Len(gui_df) = 3
    /\ \E m, n \in DOMAIN grouped_data :
          /\ m # n
          /\ group_data(gui_df)[m].isValid = NaN
          /\ grouped_data[m].isValid = "True"
          /\ grouped_data[n].isValid = group_data(gui_df)[n].isValid
    /\ \A k \in DOMAIN final_file : final_file[k].isValid # gui_df[k].isValid
                                          => gui_df[k].isValid = NaN

-----------------------------------------------------------------------------
(* Prompting: create_polls_isValid_system_prompt of process_polling.py and *)
(* of process_polls.py.  The text returned is kept as the sequence of its  *)
(* passages; a passage is fixed text, an inserted value, or a part of a    *)
(* worked example.                                                         *)
MaxCandidates == 3    \* names in a candidate list

CandidatePool == {"Franklin D. Roosevelt", "Alf Landon", "Wendell Willkie"}

Passage(kind, text) ==
    [kind |-> kind, text |-> text, questionId |-> "", responses |-> <<>>,
     isValid |-> ""]

\* The poll given as the input of a worked example.
ExampleInput(id, text, options) ==
    [kind |-> "example_input", text |-> text, questionId |-> id,
     responses |-> options, isValid |-> ""]

\* The output expected for it: the questionId and the verdict.
ExampleOutput(id, verdict) ==
    [kind |-> "example_output", text |-> "", questionId |-> id,
     responses |-> <<>>, isValid |-> verdict]

\* {year} in the f-string: str(year)
year_text(y) ==
    CASE y = 1936 -> "1936" [] y = 1940 -> "1940" [] y = 2024 -> "2024"
      [] OTHER -> "0"

\* ', '.join(candidates)
RECURSIVE join(_)
join(names) ==
    IF names = <<>> THEN <<>>
    ELSE IF Len(names) = 1 THEN <<Passage("candidate", names[1])>>
    ELSE <<Passage("candidate", names[1]), Passage("separator", ", ")>>
             \o join(Tail(names))

\* process_polling.py: the first return statement of the function.  Its
\* "Valid poll examples" are four question wordings; it has no example with
\* response options or with an expected output.  The second return statement
\* below it, which holds three worked examples with explanations, is never
\* reached.
polling_system_prompt(names, y) ==
    LET candidates_str == join(names)
    IN  <<Passage("text", "You are a polling analyst for the"),
          Passage("year", year_text(y)),
          Passage("text", "presidential election between the following candidates:")>>
        \o candidates_str
        \o <<Passage("text", "Criteria for a valid general election poll:"),
             Passage("year", year_text(y)),
             Passage("text", "It includes at least two of the following candidates:")>>
        \o candidates_str
        \o <<Passage("text", "Valid poll examples:"),
             Passage("example_question", "If the election were held today, who would you vote for?"),
             Passage("example_question", "Which candidate do you prefer for President?"),
             Passage("example_question", "Who would you like to see win the presidential election?"),
             Passage("example_question", "If X and Y were the nominees, who would you support?"),
             Passage("text", "Exclude polls that:"),
             Passage("text", "Special considerations:"),
             Passage("text", "Output format:"),
             Passage("schema", "questionId: string, isValid: boolean"),
             Passage("text", "Do not include explanations or additional commentary in your output.")>>

\* process_polls.py: one valid and one invalid worked example.
polls_system_prompt(names, y) ==
    <<Passage("text", "You are a polling analyst for the"),
      Passage("year", year_text(y)),
      Passage("text", "A valid poll must meet the following criteria:"),
      Passage("year", year_text(y)),
      Passage("text", "It includes at least two of the following candidates:")>>
    \o join(names)
    \o <<Passage("text", "Exclude polls that:"),
         Passage("schema", "questionId: string, isValid: boolean"),
         Passage("text", "Analyze the poll data provided"),
         Passage("text", "Valid poll:"),
         ExampleInput("USGALLUP.100436.R06",
                      "Which candidate do you prefer for President?",
                      <<"Roosevelt", "Willkie", "Other">>),
         ExampleOutput("USGALLUP.100436.R06", "true"),
         Passage("text", "Invalid poll:"),
         ExampleInput("USGALLUP.36-053.Q4B",
                      "WHICH CANDIDATE DO YOU THINK WILL WIN IN YOUR STATE?",
                      <<"ROOSEVELT", "LANDON", "LEMKE">>),
         ExampleOutput("USGALLUP.36-053.Q4B", "false"),
         Passage("text", "Analyze the poll data provided")>>

create_polls_isValid_system_prompt(module, names, y) ==
    IF module = "process_polling" THEN polling_system_prompt(names, y)
    ELSE polls_system_prompt(names, y)

InitPrompt ==
    /\ prompt_module \in {"process_polling", "process_polls"}
    /\ candidates \in SeqsUpTo(CandidatePool, MaxCandidates)
    /\ prompt_year \in ElectionYears
    /\ system_prompt = <<>>
    /\ pcPrompt = "start"

\* process_polls_isValid: system_prompt = create_polls_isValid_system_prompt(
\* candidates, year)
BuildPrompt ==
    /\ pcPrompt = "start"
    /\ system_prompt' =
           create_polls_isValid_system_prompt(prompt_module, candidates, prompt_year)
    /\ pcPrompt' = "built"
    /\ UNCHANGED <<prompt_module, candidates, prompt_year>>

NextPrompt ==
    BuildPrompt /\ UNCHANGED <<mergeVars, classifyVars, compareVars, groupVars, guiVars,
                              appVars>>

InitSpecPrompt ==
    InitPrompt /\ IdleMerge /\ IdleClassify /\ IdleCompare /\ IdleGroup /\ IdleGui /\ IdleApp

SpecPrompt == InitSpecPrompt /\ [][NextPrompt]_vars

\* ---- properties of prompting
\* `part` stands in `text` as a run of consecutive passages.
ContainsRun(text, part) ==
    \E k \in 0..(Len(text) - Len(part)) :
        \A n \in DOMAIN part : text[k + n] = part[n]

\* The text holds a worked example with this verdict: a poll with its
\* question and response options, followed by the expected output, which
\* names the same question and carries nothing but the verdict.
HasWorkedExample(text, verdict) ==
    \E k \in DOMAIN text :
        /\ k + 1 \in DOMAIN text
        /\ text[k].kind = "example_input"
        /\ text[k].text # ""
        /\ text[k].responses # <<>>
        /\ text[k + 1].kind = "example_output"
        /\ text[k + 1].questionId = text[k].questionId
        /\ text[k + 1].isValid = verdict
        /\ text[k + 1].text = ""

\* C23 (as claimed): the text that is returned contains the candidate list
\* as given and at least one valid and one invalid worked example, each with
\* question and response content and the expected verdict.
C23_PromptHasCandidatesAndExamples ==
    pcPrompt = "built" =>
        /\ ContainsRun(system_prompt, join(candidates))
        /\ HasWorkedExample(system_prompt, "true")
        /\ HasWorkedExample(system_prompt, "false")

-----------------------------------------------------------------------------
(* Validating: validate_polls_gui.PollValidationApp.  The JSON file is a   *)
(* list of entries; an entry is modelled by its QuestionID and its 'Valid' *)
(* flag, "absent" when the entry has no such key.  An exception raised in  *)
(* an event handler is reported by Tk and the main loop goes on.           *)
MaxAppEntries == 2    \* entries in the JSON file
MaxWrites     == 3    \* writes of the file that are followed

AppFiles ==
    {[k \in 1..n |-> [QuestionID |-> QuestionList[k], Valid |-> flags[k]]] :
        n \in 0..MaxAppEntries,
        flags \in [1..MaxAppEntries -> {"absent", "True", "False"}]}

InitApp ==
    /\ app_input \in AppFiles
    /\ app_file = app_input
    /\ app_data = <<>>
    /\ app_index = 0
    /\ app_raised = "no"
    /\ app_writes = 0
    /\ pcApp = "start"

\* run(filename): load_data reads the file into self.data and shows the
\* current entry (display_current only shows an error box when the index
\* is out of range).
LoadData ==
    /\ pcApp = "start"
    /\ app_data' = app_file
    /\ pcApp' = "running"
    /\ UNCHANGED <<app_input, app_file, app_index, app_raised, app_writes>>

\* mark_valid / mark_invalid: self.data[self.current_index]['Valid'] = flag
\* (IndexError when the index is len(self.data)); save_responses() writes
\* self.data to self.filename; self.current_index += 1; display_current().
Mark(flag) ==
    /\ pcApp = "running"
    /\ app_writes < MaxWrites
    /\ IF app_index >= Len(app_data)
       THEN /\ app_raised' = "IndexError"
            /\ UNCHANGED <<app_file, app_data, app_index, app_writes>>
       ELSE /\ app_data' = [app_data EXCEPT ![app_index + 1].Valid = flag]
            /\ app_file' = app_data'
            /\ app_writes' = app_writes + 1
            /\ app_index' = app_index + 1
            /\ app_raised' = "no"
    /\ UNCHANGED <<app_input, pcApp>>

mark_valid == Mark("True")

mark_invalid == Mark("False")

\* previous_entry
previous_entry ==
    /\ pcApp = "running"
    /\ IF app_index > 0
       THEN app_index' = app_index - 1
       ELSE UNCHANGED app_index
    /\ app_raised' = "no"
    /\ UNCHANGED <<app_input, app_file, app_data, app_writes, pcApp>>

OtherThanApp ==
    <<mergeVars, classifyVars, compareVars, groupVars, guiVars, promptVars>>

NextApp ==
    \/ LoadData /\ UNCHANGED OtherThanApp
    \/ mark_valid /\ UNCHANGED OtherThanApp
    \/ mark_invalid /\ UNCHANGED OtherThanApp
    \/ previous_entry /\ UNCHANGED OtherThanApp

InitSpecApp ==
    InitApp /\ IdleMerge /\ IdleClassify /\ IdleCompare /\ IdleGroup /\ IdleGui
        /\ IdlePrompt

SpecApp == InitSpecApp /\ [][NextApp]_vars

\* ---- properties of validating
\* C26 (as claimed): a step that saves an edited record set leaves the file
\* it read as it was and writes its output once.
C26_NeverWrittenInPlace ==
    pcApp = "running" => (app_file = app_input /\ app_writes <= 1)

\* C28 (as claimed): with entries loaded the index stays on an entry and no
\* event ends with an exception.
C28_IndexStaysOnAnEntry ==
    (pcApp = "running" /\ app_data # <<>>) =>
        /\ app_index \in 0..(Len(app_data) - 1)
        /\ app_raised = "no"

-----------------------------------------------------------------------------
(* The pipeline of process_polling.main for one file: format_polling, then *)
(* process_polls_isValid on the formatted questions, then                  *)
(* merge_polls_with_validity, which reads the file again.                  *)
MaxPipelineRows == 2  \* rows in a file that runs through the pipeline

\* The rows the files are drawn from: question Q1, polled in one of the
\* three cycles, with a second response option in the 1940 cycle, and a
\* second question, polled in the 1936 or in the 1940 cycle, whose id is the
\* one the service may name without having been asked about it.
PipelineRowPool ==
    {Row("Q1", "Roosevelt", "49", "Whom do you prefer?", d[1], d[2]) :
        d \in GroupDates}
    \cup {Row("Q1", "Others", "*", "Whom do you prefer?", 19361104, 19401104)}
    \cup {Row(ForgedId, "Roosevelt", "63", "Who will win?", d[1], d[2]) :
            d \in {<<19361020, 19361021>>, <<19400901, 19400902>>}}

\* A file holds a row at most once.
PipelineFiles ==
    {f \in SeqsUpTo(PipelineRowPool, MaxPipelineRows) :
        \A a, b \in DOMAIN f : f[a] = f[b] => a = b}

\* main: one entry of polling_data, and batch_size = 50.
InitPipeline ==
    /\ raw_file \in PipelineFiles
    /\ processed_df = <<>>
    /\ llm_file = NoTable
    /\ result_df = NoTable
    /\ pcMerge = {}
    /\ file_columns = RawColumns
    /\ year = 0
    /\ formatted = <<>>
    /\ pcGroup = "start"
    /\ formatted_data = <<>>
    /\ batch_size = 50
    /\ variant = "process_polling"
    /\ i = 0
    /\ responses = <<>>
    /\ calls = <<>>
    /\ replies = <<>>
    /\ pcClassify = "idle"

\* main: processed_df = process_polls_isValid(formatted_data, candidates,
\* year, batch_size), up to the start of its loop.
CallClassifier ==
    /\ pcGroup = "format_polling"
    /\ pcClassify = "idle"
    /\ formatted_data' = [n \in DOMAIN formatted |-> formatted[n].QuestionID]
    /\ pcClassify' = "loop"
    /\ UNCHANGED <<batch_size, variant, i, responses, calls, replies>>

\* main: merge_polls_with_validity(filename, processed_df).  A table made of
\* a list that begins with a bare string has one unnamed column, and the
\* merge raises KeyError for questionId.
CallMerge ==
    /\ pcClassify = "done"
    /\ "llm" \notin pcMerge
    /\ processed_df' = responses
    /\ llm_file' =
           IF responses # <<>> /\ responses[1].questionId = NotAnObject
           THEN KeyError
           ELSE merge_polls_with_validity(raw_file, responses)
    /\ pcMerge' = pcMerge \cup {"llm"}
    /\ UNCHANGED <<raw_file, result_df>>

NextPipeline ==
    \/ FormatPolling /\ UNCHANGED <<mergeVars, classifyVars, compareVars, guiVars,
                                    promptVars, appVars>>
    \/ CallClassifier /\ UNCHANGED <<mergeVars, groupVars, compareVars, guiVars,
                                     promptVars, appVars>>
    \/ ProcessBatch /\ UNCHANGED <<mergeVars, groupVars, compareVars, guiVars,
                                   promptVars, appVars>>
    \/ ReturnProcessed /\ UNCHANGED <<mergeVars, groupVars, compareVars, guiVars,
                                      promptVars, appVars>>
    \/ CallMerge /\ UNCHANGED <<classifyVars, groupVars, compareVars, guiVars,
                                promptVars, appVars>>

InitSpecPipeline == InitPipeline /\ IdleCompare /\ IdleGui /\ IdlePrompt /\ IdleApp

SpecPipeline == InitSpecPipeline /\ [][NextPipeline]_vars

\* ---- properties of the pipeline
\* Row r lies in the election cycle of year y.
InWindow(r, y) ==
    /\ y # 1936 => r.BegDate >= election_dates_dictionary[y - 4] + 1
    /\ y # 2024 => r.EndDate <= election_dates_dictionary[y] - 1

WindowRowsOf(q) ==
    SelectSeq(raw_file, LAMBDA r : r.QuestionID = q /\ InWindow(r, year))

\* C30 (as claimed): format_polling groups exactly the rows inside the
\* election cycle of the year; a question that has no row inside it is never
\* sent to the classifier, and none of its rows is in the merged output.
C30_OnlyTheWindowIsGroupedAndMerged ==
    /\ pcGroup = "format_polling" =>
          /\ {formatted[n].QuestionID : n \in DOMAIN formatted}
                 = {raw_file[k].QuestionID : k \in
                        {j \in DOMAIN raw_file : InWindow(raw_file[j], year)}}
          /\ \A n \in DOMAIN formatted :
                Len(formatted[n].Responses)
                    = Len(WindowRowsOf(formatted[n].QuestionID))
    /\ \A k \in DOMAIN calls : \A n \in DOMAIN calls[k] :
          WindowRowsOf(calls[k][n]) # <<>>
    /\ llm_file.status = "ok" =>
          \A k \in DOMAIN llm_file.rows :
              WindowRowsOf(llm_file.rows[k].QuestionID) # <<>>

=============================================================================
